---- MODULE Spec2Model ----
(***************************************************************************)
(* Model of the message router of src/src/workflow/agent_router.py:        *)
(* AgentRouter with its agent registry, priority-sorted routing rules,     *)
(* route_message fan-out, process_message, the stats record, the message   *)
(* queue and the processing loop of start_processing.                      *)
(*                                                                         *)
(* Text is modelled as a sequence of Unicode code points, so that the      *)
(* keyword predicates (substring match on str(content).lower()) are        *)
(* computed, not assumed.  A message content is an opaque payload that the *)
(* router passes around by reference; it is named here by a string and     *)
(* Str gives its stringification.  Wall-clock values (timestamp,           *)
(* processing_time, avg_processing_time) are not modelled.                 *)
(***************************************************************************)
EXTENDS Integers, Sequences, FiniteSets, TLC

VARIABLES
    agents,           \* self.agents: registered agent ids, in dict insertion order
    routing_rules,    \* self.routing_rules
    stats,            \* self.stats (the three counters)
    message_history,  \* self.message_history
    call,             \* the last public operation called and its argument
    routed,           \* the list returned by the last route_message call
    response,         \* <<m>> when the last process_message call returned m
    invoked,          \* the agents whose process() the last call awaited, in order
    pre,              \* self.stats as it was when the last call started
    returned,         \* how many process_message calls returned a RESULT, an ERROR
    message_queue,    \* self.message_queue, oldest message first
    is_running,       \* self.is_running
    loop,             \* the frame of the start_processing coroutine; its field
                      \* stats0 keeps self.stats as it was when the calls
                      \* for the current batch were created
    sent              \* how many send_message calls have been made

loop_vars == <<message_queue, is_running, loop, sent>>

vars == <<agents, routing_rules, stats, message_history,
          call, routed, response, invoked, pre, returned,
          message_queue, is_running, loop, sent>>

-----------------------------------------------------------------------------
(* Bounds of the model *)

\* user rules registered with add_routing_rule (the default set is extra)
MaxRules == 2
\* route_message is not called once messages_routed + errors has reached this value
MaxRouted == 2
\* process_message is not called once this many calls have been made
MaxCalls == 3
\* send_message is not called once this many messages have been sent
MaxSent == 2

-----------------------------------------------------------------------------
(* Text: sequences of code points *)

Repeat(ch, n) == [i \in 1..n |-> ch]

\* str.lower() on the alphabets the keywords and contents use:
\* Latin A-Z, Cyrillic U+0410..U+042F, and U+0401 (IO).
LowerChar(ch) ==
    IF ch >= 65 /\ ch <= 90 THEN ch + 32
    ELSE IF ch >= 1040 /\ ch <= 1071 THEN ch + 32
    ELSE IF ch = 1025 THEN 1105
    ELSE ch

Lower(s) == [i \in 1..Len(s) |-> LowerChar(s[i])]

\* s.startswith(kw) in the place of  kw in s
IsSubstringAtStart(kw, s) ==
    /\ Len(kw) <= Len(s)
    /\ \A j \in 1..Len(kw) : s[j] = kw[j]

\* Python's  kw in s  on strings
IsSubstring(kw, s) ==
    \E i \in 0..(Len(s) - Len(kw)) :
        \A j \in 1..Len(kw) : s[i + j] = kw[j]

kw_analiz == <<1072, 1085, 1072, 1083, 1080, 1079>>  \* "analiz"
kw_dannye == <<1076, 1072, 1085, 1085, 1099, 1077>>  \* "dannye"
kw_statistika == <<1089, 1090, 1072, 1090, 1080, 1089, 1090, 1080, 1082, 1072>>  \* "statistika"
kw_trendy == <<1090, 1088, 1077, 1085, 1076, 1099>>  \* "trendy"
kw_kod == <<1082, 1086, 1076>>  \* "kod"
kw_programma == <<1087, 1088, 1086, 1075, 1088, 1072, 1084, 1084, 1072>>  \* "programma"
kw_funkciya == <<1092, 1091, 1085, 1082, 1094, 1080, 1103>>  \* "funkciya"
kw_klass == <<1082, 1083, 1072, 1089, 1089>>  \* "klass"
kw_algoritm == <<1072, 1083, 1075, 1086, 1088, 1080, 1090, 1084>>  \* "algoritm"
kw_revyu == <<1088, 1077, 1074, 1100, 1102>>  \* "rev'yu"
kw_proverka == <<1087, 1088, 1086, 1074, 1077, 1088, 1082, 1072>>  \* "proverka"
kw_kachestvo == <<1082, 1072, 1095, 1077, 1089, 1090, 1074, 1086>>  \* "kachestvo"
kw_proekt == <<1087, 1088, 1086, 1077, 1082, 1090>>  \* "proekt"
kw_plan == <<1087, 1083, 1072, 1085>>  \* "plan"
kw_upravlenie == <<1091, 1087, 1088, 1072, 1074, 1083, 1077, 1085, 1080, 1077>>  \* "upravlenie"
kw_zadachi == <<1079, 1072, 1076, 1072, 1095, 1080>>  \* "zadachi"
kw_sroki == <<1089, 1088, 1086, 1082, 1080>>  \* "sroki"
kw_ideya == <<1080, 1076, 1077, 1103>>  \* "ideya"
kw_innovaciya == <<1080, 1085, 1085, 1086, 1074, 1072, 1094, 1080, 1103>>  \* "innovaciya"
kw_kreativ == <<1082, 1088, 1077, 1072, 1090, 1080, 1074>>  \* "kreativ"
kw_reshenie == <<1088, 1077, 1096, 1077, 1085, 1080, 1077>>  \* "reshenie"
kw_ocenka == <<1086, 1094, 1077, 1085, 1082, 1072>>  \* "ocenka"
kw_audit == <<1072, 1091, 1076, 1080, 1090>>  \* "audit"
kw_test == <<1090, 1077, 1089, 1090>>  \* "test"
kw_posledovatelno == <<1087, 1086, 1089, 1083, 1077, 1076, 1086, 1074, 1072, 1090, 1077, 1083, 1100, 1085, 1086>>  \* "posledovatel'no"
kw_parallelno == <<1087, 1072, 1088, 1072, 1083, 1083, 1077, 1083, 1100, 1085, 1086>>  \* "parallel'no"
kw_vsem == <<1074, 1089, 1077, 1084>>  \* "vsem"

\* the keyword lists of the six topic predicates of add_default_routing_rules
DefaultKeywords ==
    [ is_data_analysis      |-> {kw_analiz, kw_dannye, kw_statistika, kw_trendy},
      is_code_generation    |-> {kw_kod, kw_programma, kw_funkciya, kw_klass, kw_algoritm},
      is_code_review        |-> {kw_revyu, kw_proverka, kw_kod, kw_kachestvo},
      is_project_management |-> {kw_proekt, kw_plan, kw_upravlenie, kw_zadachi, kw_sroki},
      is_idea_generation    |-> {kw_ideya, kw_innovaciya, kw_kreativ, kw_reshenie},
      is_quality_assessment |-> {kw_kachestvo, kw_ocenka, kw_proverka, kw_audit} ]

\* the keyword of each predicate of the unit tests (test_iteration3.py)
TestKeywords ==
    [ test_condition       |-> {kw_test},
      sequential_condition |-> {kw_posledovatelno},
      parallel_condition   |-> {kw_parallelno},
      broadcast_condition  |-> {kw_vsem} ]

TopicConditions == DOMAIN DefaultKeywords
TestConditions == DOMAIN TestKeywords

\* len(str(content)) above which is_complex_task holds
ComplexTaskLength == 200

-----------------------------------------------------------------------------
(* Message contents and their stringification str(content) *)

Str ==
    [ c_sales     |-> <<1055, 1088, 1086, 1072, 1085, 1072, 1083, 1080, 1079, 1080, 1088, 1091, 1081, 32, 1076, 1072, 1085, 1085, 1099, 1077, 32, 1087, 1088, 1086, 1076, 1072, 1078>>, \* "Proanaliziruj dannye prodazh"
      c_factorial |-> <<1057, 1086, 1079, 1076, 1072, 1081, 32, 1092, 1091, 1085, 1082, 1094, 1080, 1102, 32, 1076, 1083, 1103, 32, 1074, 1099, 1095, 1080, 1089, 1083, 1077, 1085, 1080, 1103, 32, 1092, 1072, 1082, 1090, 1086, 1088, 1080, 1072, 1083, 1072>>, \* "Sozdaj funkciyu dlya vychisleniya faktoriala"
      c_review    |-> <<1055, 1088, 1086, 1074, 1077, 1076, 1080, 32, 1088, 1077, 1074, 1100, 1102, 32, 1082, 1086, 1076, 1072>>, \* "Provedi rev'yu koda"
      c_kod_upper |-> <<1050, 1054, 1044>>,                      \* "KOD" in capitals
      c_plan      |-> <<1057, 1086, 1079, 1076, 1072, 1081, 32>> \o kw_plan,  \* "Sozdaj plan"
      c_algo      |-> kw_algoritm,
      c_audit     |-> kw_audit,
      c_both      |-> kw_analiz \o <<32, 1080, 32>> \o kw_kod,   \* "analiz i kod"
      c_hello     |-> <<1055, 1088, 1080, 1074, 1077, 1090>>,    \* "Privet"
      c_empty     |-> <<>>,
      c_test      |-> kw_test,
      c_seq       |-> kw_posledovatelno,
      c_par       |-> kw_parallelno,
      c_all       |-> kw_vsem,
      c_seq_par   |-> kw_posledovatelno \o <<32, 1080, 32>> \o kw_parallelno,
      c_seq_all   |-> kw_vsem \o <<32>> \o kw_posledovatelno,
      \* a dict payload {'task': 'trendy'}: str() gives its repr
      c_dict      |-> <<123, 39, 116, 97, 115, 107, 39, 58, 32, 39>> \o kw_trendy \o <<39, 125>>,
      c_len200    |-> Repeat(120, 200),
      c_len201    |-> Repeat(120, 201),
      c_long250   |-> Repeat(120, 250),
      c_long_algo |-> kw_algoritm \o Repeat(120, 242) ]

Contents == DOMAIN Str

-----------------------------------------------------------------------------
(* Message and RoutingRule *)

\* MessageType values
MessageTypes == {"task", "result", "error", "control", "data"}

\* RoutingStrategy values
RoutingStrategies == {"sequential", "parallel", "conditional", "broadcast"}

NoMetadata == [k \in {} |-> 0]

\* a metadata value that is not a mapping (metadata=None): {**None} raises TypeError
None == [py_none |-> TRUE]

\* Message(id, sender, recipients, message_type, content, metadata, priority)
Message(id, sender, recipients, message_type, content, metadata, priority) ==
    [ id |-> id, sender |-> sender, recipients |-> recipients,
      message_type |-> message_type, content |-> content,
      metadata |-> metadata, priority |-> priority ]

\* RoutingRule(condition, target_agents, strategy, priority, description)
RoutingRule(condition, target_agents, strategy, priority, description) ==
    [ condition |-> condition, target_agents |-> target_agents,
      strategy |-> strategy, priority |-> priority, description |-> description ]

\* a merge in which the keys of a win
DictMergeKeepFirst(a, b) ==
    [k \in (DOMAIN a) \cup (DOMAIN b) |-> IF k \in DOMAIN a THEN a[k] ELSE b[k]]

\* {**a, **b}: the keys of b override those of a
DictMerge(a, b) ==
    [k \in (DOMAIN a) \cup (DOMAIN b) |-> IF k \in DOMAIN b THEN b[k] ELSE a[k]]

\* dict.get(key, default)
DictGet(d, key, default) == IF key \in DOMAIN d THEN d[key] ELSE default

-----------------------------------------------------------------------------
(* The rule predicates *)

KeywordsOf(cond) ==
    IF cond \in TopicConditions THEN DefaultKeywords[cond] ELSE TestKeywords[cond]

\* any(keyword in str(message.content).lower() for keyword in [...]),
\* tabulated per content and predicate
ContainsKeyword ==
    [c \in Contents |->
        [cond \in TopicConditions \cup TestConditions |->
            \E kw \in KeywordsOf(cond) : IsSubstring(kw, Lower(Str[c]))]]

\* the length test with >= in place of >
IsLongFrom200 == [c \in Contents |-> Len(Str[c]) >= ComplexTaskLength]

\* len(str(message.content)) > 200, tabulated per content
IsLong == [c \in Contents |-> Len(Str[c]) > ComplexTaskLength]

\* the contents that are dicts with the key "task"
DictContents == {"c_dict"}

\* a caller's predicate  lambda m: bool(m.content["task"])  raises TypeError on
\* a str content; the predicates of the repository never raise
ConditionRaises(cond, message) ==
    cond = "task_key_condition" /\ message.content \notin DictContents

\* rule.condition(message), when it returns
Condition(cond, message) ==
    IF cond \in TopicConditions
      THEN message.message_type = "task" /\ ContainsKeyword[message.content][cond]
    ELSE IF cond = "is_complex_task"
      THEN message.message_type = "task" /\ IsLong[message.content]
    ELSE IF cond = "task_key_condition"
      THEN message.content \in DictContents
    ELSE ContainsKeyword[message.content][cond]

-----------------------------------------------------------------------------
(* The rules *)

\* the seven rules of add_default_routing_rules, in the order it registers them
\* the default set with the code-generation rule registered first
DefaultRulesCodeFirst ==
    << RoutingRule("is_code_generation", <<"coder">>, "sequential", 10, "code generation"),
       RoutingRule("is_data_analysis", <<"analyst">>, "sequential", 10, "data analysis"),
       RoutingRule("is_code_review", <<"reviewer">>, "sequential", 9, "code review"),
       RoutingRule("is_project_management", <<"manager">>, "sequential", 8, "project management"),
       RoutingRule("is_idea_generation", <<"ideator">>, "sequential", 7, "idea generation"),
       RoutingRule("is_quality_assessment", <<"assessor">>, "sequential", 6, "quality assessment"),
       RoutingRule("is_complex_task", <<"analyst", "coder", "reviewer">>, "sequential", 5, "complex task") >>

DefaultRules ==
    << RoutingRule("is_data_analysis", <<"analyst">>, "sequential", 10, "data analysis"),
       RoutingRule("is_code_generation", <<"coder">>, "sequential", 10, "code generation"),
       RoutingRule("is_code_review", <<"reviewer">>, "sequential", 9, "code review"),
       RoutingRule("is_project_management", <<"manager">>, "sequential", 8, "project management"),
       RoutingRule("is_idea_generation", <<"ideator">>, "sequential", 7, "idea generation"),
       RoutingRule("is_quality_assessment", <<"assessor">>, "sequential", 6, "quality assessment"),
       RoutingRule("is_complex_task", <<"analyst", "coder", "reviewer">>, "sequential", 5, "complex task") >>

\* the rules the unit tests register (test_iteration3.py) ...
TestRules ==
    { RoutingRule("test_condition", <<"analyst">>, "sequential", 5, "test rule"),
      RoutingRule("sequential_condition", <<"analyst", "coder">>, "sequential", 10, "sequential"),
      RoutingRule("parallel_condition", <<"analyst", "coder">>, "parallel", 9, "parallel"),
      RoutingRule("broadcast_condition", <<>>, "broadcast", 8, "broadcast") }

\* ... and further rules a caller can register: a broadcast rule that lists a
\* target, a conditional rule, and a rule one of whose targets is never registered
OtherRules ==
    { RoutingRule("broadcast_condition", <<"coder">>, "broadcast", 9, "broadcast via coder"),
      RoutingRule("test_condition", <<"analyst">>, "conditional", 10, "conditional"),
      RoutingRule("parallel_condition", <<"manager", "coder">>, "parallel", 10, "parallel manager") }

RuleChoices == TestRules \cup OtherRules

\* a rule whose predicate raises for some messages
FaultyRules ==
    { RoutingRule("task_key_condition", <<"analyst">>, "parallel", 7, "task key") }

\* the agent ids that get registered (the mock agents of main.py and the tests);
\* "manager", "ideator" and "assessor" are targets of rules but never registered
AgentIds == {"analyst", "coder", "reviewer"}

-----------------------------------------------------------------------------
(* add_routing_rule *)

\* place rule in front of the elements of its own priority
InsertByPriorityBeforeTies(sorted, rule) ==
    LET k == Cardinality({i \in DOMAIN sorted : sorted[i].priority > rule.priority})
    IN SubSeq(sorted, 1, k) \o <<rule>> \o SubSeq(sorted, k + 1, Len(sorted))

\* place rule behind every element of the sorted list whose priority is not lower
RECURSIVE InsertByPriority(_, _)
InsertByPriority(sorted, rule) ==
    IF sorted = <<>> THEN <<rule>>
    ELSE IF Head(sorted).priority >= rule.priority
      THEN <<Head(sorted)>> \o InsertByPriority(Tail(sorted), rule)
      ELSE <<rule>> \o sorted

\* add_routing_rule without its sort
SortByPriorityOmitted(rules) == rules

\* list.sort(key=lambda x: x.priority, reverse=True): a stable sort of the whole list
RECURSIVE SortByPriority(_)
SortByPriority(rules) ==
    IF rules = <<>> THEN <<>>
    ELSE InsertByPriority(SortByPriority(SubSeq(rules, 1, Len(rules) - 1)),
                          rules[Len(rules)])

\* the rule list after add_routing_rule(rule)
AddedRule(rules, rule) == SortByPriority(Append(rules, rule))

\* the rule list after add_default_routing_rules()
RECURSIVE AddedRules(_, _)
AddedRules(rules, new) ==
    IF new = <<>> THEN rules
    ELSE AddedRules(AddedRule(rules, Head(new)), Tail(new))

IsDefaultRule(rule) == \E i \in DOMAIN DefaultRules : DefaultRules[i] = rule

UserRuleCount == Cardinality({i \in DOMAIN routing_rules : ~IsDefaultRule(routing_rules[i])})

-----------------------------------------------------------------------------
(* route_message *)

AgentSet == {agents[i] : i \in DOMAIN agents}

\* matching_rules = [rule for rule in self.routing_rules if rule.condition(message)]
MatchingRules(message) ==
    SelectSeq(routing_rules, LAMBDA rule : Condition(rule.condition, message))

\* the target list without the filter on registered agents
AvailableAgentsUnfiltered(rule) == rule.target_agents

\* available_agents = [agent_id for agent_id in rule.target_agents if agent_id in self.agents]
AvailableAgents(rule) ==
    SelectSeq(rule.target_agents, LAMBDA agent_id : agent_id \in AgentSet)

\* a loop that numbers the steps from 0, as enumerate does
SequentialLoopZeroBased(message, available_agents, i, routed_messages) ==
    [k \in 1..Len(available_agents) |->
        Message(message.id \o "_to_" \o available_agents[k],
                message.sender,
                <<available_agents[k]>>,
                message.message_type,
                message.content,
                DictMerge(message.metadata,
                          [ step |-> k - 1,
                            total_steps |-> Len(available_agents),
                            previous_results |-> [j \in 1..(k - 1) |-> message.content] ]),
                message.priority)]

\* a loop that collects previous_results after appending the new message
SequentialLoopCountsItself(message, available_agents, i, routed_messages) ==
    [k \in 1..Len(available_agents) |->
        Message(message.id \o "_to_" \o available_agents[k],
                message.sender,
                <<available_agents[k]>>,
                message.message_type,
                message.content,
                DictMerge(message.metadata,
                          [ step |-> k,
                            total_steps |-> Len(available_agents),
                            previous_results |-> [j \in 1..k |-> message.content] ]),
                message.priority)]

\* the SEQUENTIAL loop, from 1-based position i on (i is Python's i + 1)
RECURSIVE SequentialLoop(_, _, _, _)
SequentialLoop(message, available_agents, i, routed_messages) ==
    IF i > Len(available_agents) THEN routed_messages
    ELSE SequentialLoop(message, available_agents, i + 1,
           Append(routed_messages,
             Message(message.id \o "_to_" \o available_agents[i],
                     message.sender,
                     <<available_agents[i]>>,
                     message.message_type,
                     message.content,
                     DictMerge(message.metadata,
                               [ step |-> i,
                                 total_steps |-> Len(available_agents),
                                 previous_results |->
                                     [j \in 1..Len(routed_messages) |-> routed_messages[j].content] ]),
                     message.priority)))

\* the PARALLEL loop
ParallelMessages(message, available_agents) ==
    [i \in 1..Len(available_agents) |->
        Message(message.id \o "_to_" \o available_agents[i],
                message.sender,
                <<available_agents[i]>>,
                message.message_type,
                message.content,
                DictMerge(message.metadata,
                          [parallel |-> TRUE, agent_id |-> available_agents[i]]),
                message.priority)]

\* a broadcast loop that numbers its messages
BroadcastMessagesNumbered(message) ==
    [i \in 1..Len(agents) |->
        Message(message.id \o "_broadcast_" \o ToString(i),
                message.sender,
                <<agents[i]>>,
                message.message_type,
                message.content,
                DictMerge(message.metadata, [broadcast |-> TRUE]),
                message.priority)]

\* the BROADCAST loop, over self.agents.keys()
BroadcastMessages(message) ==
    [i \in 1..Len(agents) |->
        Message(message.id \o "_broadcast_" \o agents[i],
                message.sender,
                <<agents[i]>>,
                message.message_type,
                message.content,
                DictMerge(message.metadata, [broadcast |-> TRUE]),
                message.priority)]

\* the derived messages for the rule that fires
Expand(rule, message) ==
    LET available_agents == AvailableAgents(rule) IN
    IF available_agents = <<>> THEN <<>>
    ELSE IF rule.strategy = "sequential"
      THEN SequentialLoop(message, available_agents, 1, <<>>)
    ELSE IF rule.strategy = "parallel"
      THEN ParallelMessages(message, available_agents)
    ELSE IF rule.strategy = "broadcast"
      THEN BroadcastMessages(message)
    ELSE <<>>

\* predicates evaluated lazily, up to the first rule that matches
RouteRaisesUntilFirstMatch(message) ==
    \/ \E i \in DOMAIN routing_rules :
          /\ ConditionRaises(routing_rules[i].condition, message)
          /\ \A j \in 1..(i - 1) :
                ~ConditionRaises(routing_rules[j].condition, message)
                /\ ~Condition(routing_rules[j].condition, message)
    \/ /\ MatchingRules(message) # <<>>
       /\ AvailableAgents(MatchingRules(message)[1]) # <<>>
       /\ MatchingRules(message)[1].strategy \in {"sequential", "parallel", "broadcast"}
       /\ message.metadata = None

\* whether the try block of route_message ends in the except clause: a
\* predicate raises while matching_rules is built (every rule is evaluated),
\* or the first derived message cannot be built because message.metadata is
\* not a mapping.  Nothing has been appended to routed_messages by then.
RouteRaises(message) ==
    \/ \E i \in DOMAIN routing_rules :
          ConditionRaises(routing_rules[i].condition, message)
    \/ /\ MatchingRules(message) # <<>>
       /\ AvailableAgents(MatchingRules(message)[1]) # <<>>
       /\ MatchingRules(message)[1].strategy \in {"sequential", "parallel", "broadcast"}
       /\ message.metadata = None

\* route_message going on to the next matching rule when one yields nothing
RoutedMessagesFallThrough(message) ==
    LET matching_rules == MatchingRules(message)
        yielding == SelectSeq(matching_rules, LAMBDA rule : Expand(rule, message) # <<>>)
    IN IF RouteRaises(message) \/ yielding = <<>> THEN <<>>
       ELSE Expand(yielding[1], message)

\* route_message taking the last matching rule
RoutedMessagesLastMatch(message) ==
    LET matching_rules == MatchingRules(message) IN
    IF RouteRaises(message) \/ matching_rules = <<>> THEN <<>>
    ELSE Expand(matching_rules[Len(matching_rules)], message)

\* the list route_message returns
RoutedMessages(message) ==
    LET matching_rules == MatchingRules(message) IN
    IF RouteRaises(message) THEN <<>>
    ELSE IF matching_rules = <<>> THEN <<>>
    ELSE Expand(matching_rules[1], message)

\* a miss counted as an error
RoutedStatsCountsMisses(st, message) ==
    IF RouteRaises(message) \/ RoutedMessages(message) = <<>>
      THEN [st EXCEPT !.errors = @ + 1]
      ELSE [st EXCEPT !.messages_routed = @ + Len(RoutedMessages(message))]

\* an except clause that only logs
RoutedStatsSwallowsFailure(st, message) ==
    IF RouteRaises(message)
      THEN st
      ELSE [st EXCEPT !.messages_routed = @ + Len(RoutedMessages(message))]

\* the counter incremented once per call
RoutedStatsPerCall(st, message) ==
    IF RouteRaises(message)
      THEN [st EXCEPT !.errors = @ + 1]
      ELSE [st EXCEPT !.messages_routed = @ + 1]

\* self.stats after route_message:
\*   self.stats["messages_routed"] += len(routed_messages), or
\*   self.stats["errors"] += 1 in the except clause
RoutedStats(st, message) ==
    IF RouteRaises(message)
      THEN [st EXCEPT !.errors = @ + 1]
      ELSE [st EXCEPT !.messages_routed = @ + Len(RoutedMessages(message))]

-----------------------------------------------------------------------------
(* The messages callers pass to route_message *)

TaskMessage(content) == Message("m1", "system", <<>>, "task", content, NoMetadata, 0)

\* messages that make route_message fail: metadata=None, and str contents for
\* the predicate that indexes the content
FaultyInputs ==
    {Message("m5", "system", <<>>, "task", c, None, 0) : c \in {"c_seq", "c_all", "c_hello"}}

\* for the rules registered one by one: the contents their predicates tell apart
RouteInputs ==
    {TaskMessage(c) : c \in {"c_test", "c_seq", "c_par", "c_all", "c_seq_par",
                              "c_seq_all", "c_hello", "c_dict"}}
    \cup {Message("m2", "user", <<>>, "data", c, NoMetadata, 3) : c \in {"c_seq", "c_par"}}
    \cup {Message("m3", "system", <<>>, "task", c, [step |-> 7, total_steps |-> 9], 0) :
              c \in {"c_seq", "c_test"}}
    \cup {Message("m4", "system", <<>>, "task", c, [parallel |-> TRUE], 0) :
              c \in {"c_seq", "c_all"}}

\* for the default rule set: every content, as a TASK and as a DATA message
DefaultRouteInputs ==
    {TaskMessage(c) : c \in Contents}
    \cup {Message("m2", "user", <<>>, "data", c, NoMetadata, 3) : c \in {"c_sales", "c_long250"}}
    \cup {Message("m3", "system", <<>>, "task", c, [step |-> 7, total_steps |-> 9], 0) :
              c \in {"c_algo", "c_long250"}}

-----------------------------------------------------------------------------
(* The operations *)

NoCall == [op |-> "none", args |-> <<>>]

\* the frame of start_processing between two messages: pc is "stopped" when
\* the coroutine is not alive and "get" when it awaits message_queue.get()
LoopIdle(pc) ==
    [ pc |-> pc, message |-> <<>>, strategy |-> "none",
      batch |-> <<>>, tasks |-> <<>>, results |-> <<>>,
      stats0 |-> [messages_processed |-> 0, messages_routed |-> 0, errors |-> 0] ]

\* a router with these agents registered and these rules
Constructed(agent_ids, rules) ==
    /\ agents = agent_ids
    /\ routing_rules = rules
    /\ stats = [messages_processed |-> 0, messages_routed |-> 0, errors |-> 0]
    /\ message_history = <<>>
    /\ call = NoCall
    /\ routed = <<>>
    /\ response = <<>>
    /\ invoked = <<>>
    /\ pre = stats
    /\ returned = [result |-> 0, error |-> 0]
    /\ message_queue = <<>>
    /\ is_running = FALSE
    /\ loop = LoopIdle("stopped")
    /\ sent = 0

Init == Constructed(<<>>, <<>>)

\* self.agents[agent_id] = agent, for an id that is not registered yet
RegisterAgent(agent_id) ==
    /\ agent_id \notin AgentSet
    /\ agents' = Append(agents, agent_id)
    /\ call' = [op |-> "register_agent", args |-> <<>>]
    /\ routed' = <<>> /\ response' = <<>> /\ invoked' = <<>>
    /\ pre' = stats
    /\ UNCHANGED <<routing_rules, stats, message_history, returned>>
    /\ UNCHANGED loop_vars

AddRoutingRule(rule) ==
    /\ UserRuleCount < MaxRules
    /\ routing_rules' = AddedRule(routing_rules, rule)
    /\ call' = [op |-> "add_routing_rule", args |-> <<>>]
    /\ routed' = <<>> /\ response' = <<>> /\ invoked' = <<>>
    /\ pre' = stats
    /\ UNCHANGED <<agents, stats, message_history, returned>>
    /\ UNCHANGED loop_vars

AddDefaultRoutingRules ==
    /\ \A i \in DOMAIN routing_rules : ~IsDefaultRule(routing_rules[i])
    /\ routing_rules' = AddedRules(routing_rules, DefaultRules)
    /\ call' = [op |-> "add_default_routing_rules", args |-> <<>>]
    /\ routed' = <<>> /\ response' = <<>> /\ invoked' = <<>>
    /\ pre' = stats
    /\ UNCHANGED <<agents, stats, message_history, returned>>
    /\ UNCHANGED loop_vars

RouteMessage(message) ==
    /\ stats.messages_routed + stats.errors < MaxRouted
    /\ routed' = RoutedMessages(message)
    /\ stats' = RoutedStats(stats, message)
    /\ call' = [op |-> "route_message", args |-> <<message>>]
    /\ response' = <<>> /\ invoked' = <<>>
    /\ pre' = stats
    /\ UNCHANGED <<agents, routing_rules, message_history, returned>>
    /\ UNCHANGED loop_vars

-----------------------------------------------------------------------------
(* process_message *)

\* what awaiting agent.process(message.content) can do
AgentOutcomes == {"returns", "raises"}

\* the string agent.process returns
ResultOf(agent_id, content) == "result of " \o agent_id

\* str(e) of the exception that ends the try block
\*   IndexError   message.recipients[0] on an empty list
\*   ValueError   raised when self.agents.get(agent_id) finds no agent
\*   RuntimeError whatever agent.process raises
ExceptionOf(message, outcome) ==
    IF message.recipients = <<>>
      THEN [type |-> "IndexError", str |-> "list index out of range"]
    ELSE IF message.recipients[1] \notin AgentSet
      THEN [type |-> "ValueError",
            str |-> "agent " \o message.recipients[1] \o " not found"]
    ELSE IF outcome = "raises"
      THEN [type |-> "RuntimeError", str |-> "agent failure"]
    ELSE [type |-> "none", str |-> ""]

\* a lookup that accepts any registered recipient
AgentFoundAmongRecipients(message) ==
    \E i \in DOMAIN message.recipients : message.recipients[i] \in AgentSet

\* whether the call reaches  await agent.process(message.content)
AgentFound(message) ==
    /\ message.recipients # <<>>
    /\ message.recipients[1] \in AgentSet

\* a response correlated by its own id
ResponseMessageOwnId(message) ==
    Message("response_" \o message.id,
            message.recipients[1],
            IF message.sender # "system" THEN <<message.sender>> ELSE <<>>,
            "result",
            ResultOf(message.recipients[1], message.content),
            [ original_message_id |-> "response_" \o message.id,
              agent_capabilities |-> "capabilities of " \o message.recipients[1],
              agent_limitations |-> "limitations of " \o message.recipients[1] ],
            message.priority)

\* the RESULT message of the success path
ResponseMessage(message) ==
    Message("response_" \o message.id,
            message.recipients[1],
            IF message.sender # "system" THEN <<message.sender>> ELSE <<>>,
            "result",
            ResultOf(message.recipients[1], message.content),
            [ original_message_id |-> message.id,
              agent_capabilities |-> "capabilities of " \o message.recipients[1],
              agent_limitations |-> "limitations of " \o message.recipients[1] ],
            message.priority)

\* the literal text of the f-string  f"Oshibka obrabotki: {str(e)}"  (the source
\* has it in Cyrillic)
ErrorPrefix == "Oshibka obrabotki: "

\* an ERROR message sent in the name of the original sender
ErrorResponseFromSender(message, e) ==
    Message("error_" \o message.id,
            IF message.recipients # <<>> THEN message.recipients[1] ELSE message.sender,
            IF message.sender # "system" THEN <<message.sender>> ELSE <<>>,
            "error",
            ErrorPrefix \o e.str,
            [ original_message_id |-> message.id, error_type |-> e.type ],
            message.priority)

\* an ERROR message correlated by its own id
ErrorResponseOwnId(message, e) ==
    Message("error_" \o message.id,
            IF message.recipients # <<>> THEN message.recipients[1] ELSE "system",
            IF message.sender # "system" THEN <<message.sender>> ELSE <<>>,
            "error",
            ErrorPrefix \o e.str,
            [ original_message_id |-> "error_" \o message.id, error_type |-> e.type ],
            message.priority)

\* the ERROR message of the except block
ErrorResponse(message, e) ==
    Message("error_" \o message.id,
            IF message.recipients # <<>> THEN message.recipients[1] ELSE "system",
            IF message.sender # "system" THEN <<message.sender>> ELSE <<>>,
            "error",
            ErrorPrefix \o e.str,
            [ original_message_id |-> message.id, error_type |-> e.type ],
            message.priority)

\* the message process_message returns
ProcessedResponse(message, outcome) ==
    IF AgentFound(message) /\ outcome = "returns"
      THEN ResponseMessage(message)
      ELSE ErrorResponse(message, ExceptionOf(message, outcome))

\* counters read before the await and written back after it: the value
\* written is computed from the stats of one step earlier
ProcessedStatsFromStaleRead(st, message, outcome) ==
    IF AgentFound(message) /\ outcome = "returns"
      THEN [pre EXCEPT !.messages_processed = @ + 1]
      ELSE [pre EXCEPT !.errors = @ + 1]

\* stats that count a failed call as processed too
ProcessedStatsCountsFailures(st, message, outcome) ==
    IF AgentFound(message) /\ outcome = "returns"
      THEN [st EXCEPT !.messages_processed = @ + 1]
      ELSE [st EXCEPT !.errors = @ + 1, !.messages_processed = @ + 1]

\* self.stats after the call
ProcessedStats(st, message, outcome) ==
    IF AgentFound(message) /\ outcome = "returns"
      THEN [st EXCEPT !.messages_processed = @ + 1]
      ELSE [st EXCEPT !.errors = @ + 1]

\* the messages callers pass to process_message
ProcessInputs ==
    { Message(id, sender, recipients, "task", "c_sales", NoMetadata, 0) :
        id \in {"m1", "m1_to_analyst"},
        sender \in {"system", "user"},
        recipients \in { <<>>, <<"analyst">>, <<"coder">>, <<"manager">>,
                         <<"coder", "analyst">>, <<"manager", "analyst">> } }

ProcessMessage(message, outcome) ==
    /\ returned.result + returned.error < MaxCalls
    /\ outcome = "raises" => AgentFound(message)
    /\ response' = <<ProcessedResponse(message, outcome)>>
    /\ stats' = ProcessedStats(stats, message, outcome)
    /\ invoked' = IF AgentFound(message) THEN <<message.recipients[1]>> ELSE <<>>
    /\ returned' = IF ProcessedResponse(message, outcome).message_type = "result"
                     THEN [returned EXCEPT !.result = @ + 1]
                     ELSE [returned EXCEPT !.error = @ + 1]
    /\ call' = [op |-> "process_message", args |-> <<message, outcome>>]
    /\ routed' = <<>>
    /\ pre' = stats
    /\ UNCHANGED <<agents, routing_rules, message_history>>
    /\ UNCHANGED loop_vars

-----------------------------------------------------------------------------
(* The queue, the history and the processing loop *)

\* a queue that hands out the newest message first
QueuePutInFront(queue, message) == <<message>> \o queue

\* asyncio.Queue.put on the unbounded FIFO queue
QueuePut(queue, message) == Append(queue, message)

\* await self.message_queue.put(message): the queue is unbounded, put never waits
SendMessage(message) ==
    /\ sent < MaxSent
    /\ message_queue' = QueuePut(message_queue, message)
    /\ sent' = sent + 1
    /\ call' = [op |-> "send_message", args |-> <<>>]
    /\ routed' = <<>> /\ response' = <<>> /\ invoked' = <<>>
    /\ pre' = stats
    /\ UNCHANGED <<agents, routing_rules, stats, message_history, returned,
                   is_running, loop>>

\* a loop that never looks at the flag again
LoopTopIgnoresFlag(running) == LoopIdle("get")

\* where the coroutine goes when it evaluates  while self.is_running
LoopTop(running) == LoopIdle(IF running THEN "get" ELSE "stopped")

\* start_processing up to its first await; one loop at a time
StartProcessing ==
    /\ loop.pc = "stopped"
    /\ is_running' = TRUE
    /\ loop' = LoopTop(TRUE)
    /\ call' = [op |-> "start_processing", args |-> <<>>]
    /\ routed' = <<>> /\ response' = <<>> /\ invoked' = <<>>
    /\ pre' = stats
    /\ UNCHANGED <<agents, routing_rules, stats, message_history, returned,
                   message_queue, sent>>

StopProcessing ==
    /\ is_running' = FALSE
    /\ call' = [op |-> "stop_processing", args |-> <<>>]
    /\ routed' = <<>> /\ response' = <<>> /\ invoked' = <<>>
    /\ pre' = stats
    /\ UNCHANGED <<agents, routing_rules, stats, message_history, returned,
                   message_queue, loop, sent>>

\* self.message_history.clear()
ClearHistory ==
    /\ message_history' = <<>>
    /\ call' = [op |-> "clear_history", args |-> <<>>]
    /\ routed' = <<>> /\ response' = <<>> /\ invoked' = <<>>
    /\ pre' = stats
    /\ UNCHANGED <<agents, routing_rules, stats, returned, loop_vars>>

\* self.message_history[-limit:] if limit else self.message_history
HistoryView(history, limit) ==
    IF limit = 0 \/ limit >= Len(history) THEN history
    ELSE SubSeq(history, Len(history) - limit + 1, Len(history))

\* the falsy limit, which returns the list itself, and a short one
HistoryLimits == {0, 1}

GetMessageHistory(limit) ==
    /\ response' = HistoryView(message_history, limit)
    /\ call' = [op |-> "get_message_history", args |-> <<limit>>]
    /\ routed' = <<>> /\ invoked' = <<>>
    /\ pre' = stats
    /\ UNCHANGED <<agents, routing_rules, stats, message_history, returned, loop_vars>>

\* get_stats reads the counters and the sizes and changes nothing
GetStats ==
    /\ call' = [op |-> "get_stats", args |-> <<>>]
    /\ routed' = <<>> /\ response' = <<>> /\ invoked' = <<>>
    /\ pre' = stats
    /\ UNCHANGED <<agents, routing_rules, stats, message_history, returned, loop_vars>>

\* any(msg.metadata.get("parallel", False) for msg in routed_messages)
AnyParallel(routed_messages) ==
    \E k \in DOMAIN routed_messages :
        DictGet(routed_messages[k].metadata, "parallel", FALSE) = TRUE

\* the strategy of the rule route_message expanded
FiredStrategy(message) == MatchingRules(message)[1].strategy

\* a history that keeps the latest message only
HistoryOfDequeuedOnly(history, message) == <<message>>

\* self.message_history.append(message) for the message taken from the queue
HistoryWithDequeued(history, message) == Append(history, message)

\* a gather branch that appends the responses last task first
AppendedResponsesReversed(results) ==
    [k \in DOMAIN results |-> results[Len(results) + 1 - k][1]]

\* a gather branch that logs failures and appends the RESULT messages only
AppendedResponsesWithoutErrors(results) ==
    SelectSeq([k \in DOMAIN results |-> results[k][1]],
              LAMBDA resp : resp.message_type # "error")

\* the messages the gather branch appends: every response that is no Exception
\* object; process_message returns a Message on every path
AppendedResponses(results) ==
    [k \in DOMAIN results |-> results[k][1]]

\* the loop body from the return of message_queue.get() to the next await:
\* history.append, route_message, and then either the next evaluation of the
\* while condition (nothing routed), the creation of the gather tasks, or the
\* first process_message call up to its  await agent.process(...).  The
\* recipient of a derived message is registered (route_message filters on it
\* and agents are never removed), so that await is always reached.
LoopGet ==
    /\ loop.pc = "get"
    /\ message_queue # <<>>
    /\ LET message == Head(message_queue)
           routed_messages == RoutedMessages(message)
       IN /\ message_queue' = Tail(message_queue)
          /\ message_history' = HistoryWithDequeued(message_history, message)
          /\ stats' = RoutedStats(stats, message)
          /\ loop' =
               IF routed_messages = <<>> THEN LoopTop(is_running)
               ELSE [ pc |-> IF AnyParallel(routed_messages) THEN "gather" ELSE "seq",
                      message |-> <<message>>,
                      strategy |-> FiredStrategy(message),
                      batch |-> routed_messages,
                      tasks |-> [k \in DOMAIN routed_messages |->
                                   IF ~AnyParallel(routed_messages) /\ k = 1
                                     THEN "running" ELSE "pending"],
                      results |-> [k \in DOMAIN routed_messages |-> <<>>],
                      stats0 |-> RoutedStats(stats, message) ]
    /\ call' = [op |-> "start_processing", args |-> <<>>]
    /\ routed' = <<>> /\ response' = <<>> /\ invoked' = <<>>
    /\ pre' = stats
    /\ UNCHANGED <<agents, routing_rules, returned, is_running, sent>>

\* asyncio.wait_for(..., timeout=1.0) raises TimeoutError on an empty queue:
\* continue, and the while condition is evaluated again
LoopTimeout ==
    /\ loop.pc = "get"
    /\ message_queue = <<>>
    /\ loop' = LoopTop(is_running)
    /\ call' = [op |-> "start_processing", args |-> <<>>]
    /\ routed' = <<>> /\ response' = <<>> /\ invoked' = <<>>
    /\ pre' = stats
    /\ UNCHANGED <<agents, routing_rules, stats, message_history, returned,
                   message_queue, is_running, sent>>

\* the ghost count of process_message returns
Returned(ret, resp) ==
    IF resp.message_type = "result"
      THEN [ret EXCEPT !.result = @ + 1]
      ELSE [ret EXCEPT !.error = @ + 1]

\* the sequential branch: the awaited agent.process of derived message k
\* returns or raises, process_message returns, the response is appended, and
\* the for loop calls process_message for message k + 1 up to its await, or
\* ends and the while condition is evaluated
LoopSequentialStep(k, outcome) ==
    /\ loop.pc = "seq"
    /\ k \in DOMAIN loop.batch
    /\ loop.tasks[k] = "running"
    /\ LET resp == ProcessedResponse(loop.batch[k], outcome)
       IN /\ stats' = ProcessedStats(stats, loop.batch[k], outcome)
          /\ returned' = Returned(returned, resp)
          /\ message_history' = Append(message_history, resp)
          /\ loop' = IF k = Len(loop.batch) THEN LoopTop(is_running)
                     ELSE [loop EXCEPT !.tasks[k] = "done",
                                       !.tasks[k + 1] = "running",
                                       !.results[k] = <<resp>>]
    /\ call' = [op |-> "start_processing", args |-> <<>>]
    /\ routed' = <<>> /\ response' = <<>> /\ invoked' = <<>>
    /\ pre' = stats
    /\ UNCHANGED <<agents, routing_rules, message_queue, is_running, sent>>

\* the gather branch: task k, created by asyncio.gather, runs process_message
\* up to its  await agent.process(...); tasks start in creation order
TaskStart(k) ==
    /\ loop.pc = "gather"
    /\ k \in DOMAIN loop.batch
    /\ loop.tasks[k] = "pending"
    /\ \A j \in 1..(k - 1) : loop.tasks[j] # "pending"
    /\ AgentFound(loop.batch[k])
    /\ loop' = [loop EXCEPT !.tasks[k] = "running"]
    /\ call' = [op |-> "start_processing", args |-> <<>>]
    /\ routed' = <<>> /\ response' = <<>> /\ invoked' = <<>>
    /\ pre' = stats
    /\ UNCHANGED <<agents, routing_rules, stats, message_history, returned,
                   message_queue, is_running, sent>>

\* the awaited agent.process of task k returns or raises and the task ends
\* with the Message process_message returns
TaskComplete(k, outcome) ==
    /\ loop.pc = "gather"
    /\ k \in DOMAIN loop.batch
    /\ loop.tasks[k] = "running"
    /\ LET resp == ProcessedResponse(loop.batch[k], outcome)
       IN /\ stats' = ProcessedStats(stats, loop.batch[k], outcome)
          /\ returned' = Returned(returned, resp)
          /\ loop' = [loop EXCEPT !.tasks[k] = "done", !.results[k] = <<resp>>]
    /\ call' = [op |-> "start_processing", args |-> <<>>]
    /\ routed' = <<>> /\ response' = <<>> /\ invoked' = <<>>
    /\ pre' = stats
    /\ UNCHANGED <<agents, routing_rules, message_history,
                   message_queue, is_running, sent>>

\* gather returns when every task has ended: the responses are appended in
\* the order of the derived messages and the while condition is evaluated
LoopJoin ==
    /\ loop.pc = "gather"
    /\ \A k \in DOMAIN loop.tasks : loop.tasks[k] = "done"
    /\ message_history' = message_history \o AppendedResponses(loop.results)
    /\ loop' = LoopTop(is_running)
    /\ call' = [op |-> "start_processing", args |-> <<>>]
    /\ routed' = <<>> /\ response' = <<>> /\ invoked' = <<>>
    /\ pre' = stats
    /\ UNCHANGED <<agents, routing_rules, stats, returned,
                   message_queue, is_running, sent>>

\* the steps of the start_processing coroutine
LoopStep ==
    \/ LoopGet
    \/ LoopTimeout
    \/ \E k \in 1..Len(loop.batch), outcome \in AgentOutcomes : LoopSequentialStep(k, outcome)
    \/ \E k \in 1..Len(loop.batch) : TaskStart(k)
    \/ \E k \in 1..Len(loop.batch), outcome \in AgentOutcomes : TaskComplete(k, outcome)
    \/ LoopJoin

\* a configured router: analyst and coder registered (the first two agents of
\* test_message_routing) and the sequential and the parallel rule of
\* test_routing_strategies added with add_routing_rule
LoopAgents == <<"analyst", "coder">>

LoopRules ==
    << RoutingRule("sequential_condition", <<"analyst", "coder">>, "sequential", 10, "sequential"),
       RoutingRule("parallel_condition", <<"analyst", "coder">>, "parallel", 9, "parallel") >>

InitLoop == Constructed(LoopAgents, AddedRules(<<>>, LoopRules))

\* the messages sent to the queue: one per strategy, one that no rule matches,
\* and messages whose metadata already holds keys the router writes
LoopInputs ==
    {TaskMessage(c) : c \in {"c_seq", "c_par", "c_hello"}}
    \cup {Message("m4", "system", <<>>, "task", "c_seq", [parallel |-> TRUE], 0),
          Message("m6", "user", <<>>, "task", "c_seq",
                  [previous_results |-> <<"result of analyst">>], 0)}

\* the router with rules registered one by one
Next ==
    \/ \E agent_id \in AgentIds : RegisterAgent(agent_id)
    \/ \E rule \in RuleChoices : AddRoutingRule(rule)
    \/ \E message \in RouteInputs : RouteMessage(message)

Spec == Init /\ [][Next]_vars

\* the same with rules and messages that make route_message raise internally
NextFaults ==
    \/ \E agent_id \in AgentIds : RegisterAgent(agent_id)
    \/ \E rule \in RuleChoices \cup FaultyRules : AddRoutingRule(rule)
    \/ \E message \in RouteInputs \cup FaultyInputs : RouteMessage(message)

SpecFaults == Init /\ [][NextFaults]_vars

\* rule registration alone: single rules and the default set, in any order
NextRules ==
    \/ \E rule \in RuleChoices : AddRoutingRule(rule)
    \/ AddDefaultRoutingRules

SpecRules == Init /\ [][NextRules]_vars

\* the router with the default rule set
NextDefault ==
    \/ \E agent_id \in AgentIds : RegisterAgent(agent_id)
    \/ AddDefaultRoutingRules
    \/ \E message \in DefaultRouteInputs : RouteMessage(message)

SpecDefault == Init /\ [][NextDefault]_vars

\* direct calls of process_message
NextProcess ==
    \/ \E agent_id \in AgentIds : RegisterAgent(agent_id)
    \/ \E message \in ProcessInputs, outcome \in AgentOutcomes :
           ProcessMessage(message, outcome)

SpecProcess == Init /\ [][NextProcess]_vars

\* rules of equal priority: two agents, rules registered one by one and the
\* default set in any order, and messages that several rules of one priority match
TieAgentIds == {"analyst", "coder"}

TieInputs == {TaskMessage(c) : c \in {"c_seq_par", "c_both", "c_test"}}

NextTies ==
    \/ \E agent_id \in TieAgentIds : RegisterAgent(agent_id)
    \/ \E rule \in RuleChoices : AddRoutingRule(rule)
    \/ AddDefaultRoutingRules
    \/ \E message \in TieInputs : RouteMessage(message)

SpecTies == Init /\ [][NextTies]_vars

\* the processing loop with its queue, on a configured router
NextLoop ==
    \/ \E message \in LoopInputs : SendMessage(message)
    \/ StartProcessing
    \/ StopProcessing
    \/ LoopStep

SpecLoop == InitLoop /\ [][NextLoop]_vars

\* the same with the event loop running the coroutine whenever it can go on:
\* the timeout fires, a ready queue.get returns, every awaited agent call ends
SpecLoopFair == SpecLoop /\ WF_vars(LoopStep)

\* every public operation that can touch the history, around the loop
HistoryInputs == {TaskMessage("c_seq"), TaskMessage("c_par")}

NextHistory ==
    \/ \E message \in HistoryInputs : SendMessage(message)
    \/ StartProcessing
    \/ LoopStep
    \/ ClearHistory
    \/ \E limit \in HistoryLimits : GetMessageHistory(limit)
    \/ GetStats
    \/ RouteMessage(TaskMessage("c_seq"))
    \/ \E outcome \in AgentOutcomes :
           ProcessMessage(Message("m1_to_coder", "system", <<"coder">>, "task", "c_seq",
                                  NoMetadata, 0), outcome)

SpecHistory == InitLoop /\ [][NextHistory]_vars

-----------------------------------------------------------------------------
(* Properties *)

Range(seq) == {seq[i] : i \in DOMAIN seq}

IsRouteCall == call.op = "route_message"
IsProcessCall == call.op = "process_message"

\* the positions of the rules whose predicate holds for the message
MatchIndexes(message) ==
    {i \in DOMAIN routing_rules : Condition(routing_rules[i].condition, message)}

\* the first of them in the rule list
FirstMatchIndex(message) ==
    CHOOSE i \in MatchIndexes(message) : \A j \in MatchIndexes(message) : i <= j

FiringRule(message) == routing_rules[FirstMatchIndex(message)]

\* how many entries of the rule's target list name a registered agent
RegisteredTargetCount(rule) ==
    Cardinality({i \in DOMAIN rule.target_agents : rule.target_agents[i] \in AgentSet})

\* C1: after any sequence of add_routing_rule / add_default_routing_rules calls
\* the rule list is non-increasing in priority from first to last element.
C1_RulesSortedByPriority ==
    \A i \in 1..(Len(routing_rules) - 1) :
        routing_rules[i].priority >= routing_rules[i + 1].priority

\* the default set merged with two rules registered one by one
C1_Witness ==
    /\ Len(routing_rules) = Len(DefaultRules) + 2
    /\ routing_rules[1].priority > routing_rules[Len(routing_rules)].priority
    /\ \E i \in DOMAIN routing_rules :
          ~IsDefaultRule(routing_rules[i]) /\ routing_rules[i].priority = 10

\* C2: when at least one rule matches, route_message expands exactly the first
\* matching rule of the sorted list: the result is that rule's expansion, and
\* every derived message carries that rule's strategy tag and is addressed to
\* one of the agents that rule reaches, never to those of another matching rule.
C2_FirstMatchingRuleOnly ==
    (IsRouteCall /\ MatchIndexes(call.args[1]) # {}) =>
        LET message == call.args[1]
            rule == FiringRule(message)
        IN /\ routed = Expand(rule, message)
           /\ \A k \in DOMAIN routed :
                /\ Len(routed[k].recipients) = 1
                /\ routed[k].recipients[1] \in
                      (IF rule.strategy = "broadcast" THEN AgentSet
                                                      ELSE Range(rule.target_agents))
                /\ rule.strategy = "sequential" => "step" \in DOMAIN routed[k].metadata
                /\ rule.strategy = "parallel" => "agent_id" \in DOMAIN routed[k].metadata
                /\ rule.strategy = "broadcast" => "broadcast" \in DOMAIN routed[k].metadata
           /\ rule.strategy = "conditional" => routed = <<>>

\* two rules with different strategies match and only the first one is expanded
C2_Witness ==
    /\ IsRouteCall
    /\ Cardinality(MatchIndexes(call.args[1])) >= 2
    /\ \E i, j \in MatchIndexes(call.args[1]) :
          /\ i < j
          /\ routing_rules[i].strategy # routing_rules[j].strategy
          /\ AvailableAgents(routing_rules[j]) # <<>>
    /\ routed # <<>>

\* C3: when the firing rule has the broadcast strategy, route_message returns
\* exactly one derived message per registered agent, whatever the rule's
\* target list contains, each tagged broadcast: true.
C3_BroadcastReachesEveryAgent ==
    (IsRouteCall /\ MatchIndexes(call.args[1]) # {}
       /\ FiringRule(call.args[1]).strategy = "broadcast") =>
        /\ Len(routed) = Len(agents)
        /\ \A i \in DOMAIN routed :
              /\ routed[i].recipients = <<agents[i]>>
              /\ DictGet(routed[i].metadata, "broadcast", FALSE) = TRUE

\* the topic rules of the default set present in the rule list that match
MatchingTopicRules(message) ==
    {i \in MatchIndexes(message) : routing_rules[i].condition \in TopicConditions}

\* C4: a message that matches exactly one keyword rule yields as many derived
\* messages as that rule has registered targets, each with exactly one
\* recipient, which is a registered target of that rule.
C4_OneMessagePerRegisteredTarget ==
    (IsRouteCall /\ Cardinality(MatchingTopicRules(call.args[1])) = 1) =>
        LET rule == routing_rules[CHOOSE i \in MatchingTopicRules(call.args[1]) : TRUE]
        IN /\ Len(routed) = RegisteredTargetCount(rule)
           /\ \A k \in DOMAIN routed :
                /\ Len(routed[k].recipients) = 1
                /\ routed[k].recipients[1] \in Range(rule.target_agents) \cap AgentSet

\* a long message with one topic keyword goes to that topic's registered agent
C4_Witness ==
    /\ IsRouteCall
    /\ Cardinality(MatchingTopicRules(call.args[1])) = 1
    /\ Cardinality(MatchIndexes(call.args[1])) = 2
    /\ Len(routed) = 1
    /\ "reviewer" \in AgentSet

\* C5: in a sequential expansion over N registered targets the derived message
\* at 0-based position i has step = i+1 and total_steps = N, whatever the
\* original metadata holds under these keys.
C5_SequentialStepMetadata ==
    (IsRouteCall /\ MatchIndexes(call.args[1]) # {}
       /\ FiringRule(call.args[1]).strategy = "sequential") =>
        LET N == RegisteredTargetCount(FiringRule(call.args[1]))
        IN /\ Len(routed) = N
           /\ \A i \in 0..(N - 1) :
                /\ routed[i + 1].metadata.step = i + 1
                /\ routed[i + 1].metadata.total_steps = N

\* two steps derived from a message that already had step and total_steps
C5_Witness ==
    /\ IsRouteCall
    /\ MatchIndexes(call.args[1]) # {}
    /\ FiringRule(call.args[1]).strategy = "sequential"
    /\ "step" \in DOMAIN call.args[1].metadata
    /\ "total_steps" \in DOMAIN call.args[1].metadata
    /\ Len(routed) = 2

\* C6: process_message on a message whose first recipient is not registered
\* returns an ERROR message, awaits no agent, adds exactly 1 to errors and
\* leaves messages_processed alone.
C6_UnregisteredRecipientIsError ==
    (IsProcessCall /\ call.args[1].recipients # <<>>
       /\ call.args[1].recipients[1] \notin AgentSet) =>
        /\ Len(response) = 1
        /\ response[1].message_type = "error"
        /\ invoked = <<>>
        /\ stats.errors = pre.errors + 1
        /\ stats.messages_processed = pre.messages_processed

\* the first recipient is unknown although a later one is registered
C6_Witness ==
    /\ IsProcessCall
    /\ call.args[1].recipients = <<"manager", "analyst">>
    /\ "analyst" \in AgentSet
    /\ response[1].message_type = "error"
    /\ pre.errors >= 1

\* C7: when the first recipient is registered and its process returns, the
\* returned message is a RESULT whose metadata original_message_id is the id
\* of the input message.
C7_ResultCarriesOriginalId ==
    (IsProcessCall /\ call.args[1].recipients # <<>>
       /\ call.args[1].recipients[1] \in AgentSet
       /\ call.args[2] = "returns") =>
        /\ Len(response) = 1
        /\ response[1].message_type = "result"
        /\ response[1].metadata.original_message_id = call.args[1].id

\* a derived message processed by its agent
C7_Witness ==
    /\ IsProcessCall
    /\ call.args[1].id = "m1_to_analyst"
    /\ invoked = <<"analyst">>
    /\ response[1].message_type = "result"

\* C8: a route_message call that returns K messages leaves messages_routed at
\* its value before the call plus K.
C8_RoutedCounterGrowsByResult ==
    IsRouteCall =>
        /\ stats.messages_routed = pre.messages_routed + Len(routed)
        /\ routed = <<>> => stats.messages_routed = pre.messages_routed

\* a call that returns two messages when the counter is already positive
C8_Witness ==
    /\ IsRouteCall
    /\ pre.messages_routed >= 1
    /\ Len(routed) >= 2
    /\ stats.messages_routed = pre.messages_routed + Len(routed)

\* C9: from a fresh router, messages_processed is the number of calls that
\* returned a RESULT and errors the number that returned an ERROR; a call
\* changes only the counter of its own kind.
C9_CountersMatchReturns ==
    /\ stats.messages_processed = returned.result
    /\ stats.errors = returned.error
    /\ IsProcessCall =>
         /\ response[1].message_type = "result" =>
               /\ stats.messages_processed = pre.messages_processed + 1
               /\ stats.errors = pre.errors
         /\ response[1].message_type = "error" =>
               /\ stats.errors = pre.errors + 1
               /\ stats.messages_processed = pre.messages_processed

\* successes and failures mixed
C9_Witness ==
    /\ IsProcessCall
    /\ returned.result >= 1
    /\ returned.error >= 2
    /\ response[1].message_type = "error"
    /\ invoked # <<>>

\* every keyword of the six topic rules
AllDefaultKeywords == UNION {DefaultKeywords[cond] : cond \in TopicConditions}

\* the rule list holds the default set and nothing else
OnlyDefaultRules ==
    /\ Len(routing_rules) = Len(DefaultRules)
    /\ \A i \in DOMAIN DefaultRules : DefaultRules[i] \in Range(routing_rules)

\* C10: with only the default rule set, a message whose stringified content
\* holds none of the default keywords (matched case-insensitively, as the rules
\* do) and is at most 200 characters long is routed to nobody.
C10_NoKeywordShortIsDropped ==
    (IsRouteCall /\ OnlyDefaultRules
       /\ \A kw \in AllDefaultKeywords :
             ~IsSubstring(kw, Lower(Str[call.args[1].content]))
       /\ Len(Str[call.args[1].content]) <= 200) =>
        routed = <<>>

\* exactly 200 characters, a TASK, every target of the catch-all registered
C10_Witness ==
    /\ IsRouteCall
    /\ OnlyDefaultRules
    /\ AgentSet = AgentIds
    /\ call.args[1].message_type = "task"
    /\ Len(Str[call.args[1].content]) = 200
    /\ routed = <<>>

\* the router of the routing test: analyst and coder registered, in either
\* order, no reviewer, and the default rule set alone
AnalystAndCoderWithDefaultRules ==
    /\ AgentSet = {"analyst", "coder"}
    /\ OnlyDefaultRules

\* C11: with analyst and coder registered and the default rule set, routing
\* the TASK "Proanaliziruj dannye prodazh" (c_sales) returns exactly one
\* derived message, addressed to analyst.
C11_SalesTaskGoesToAnalyst ==
    (IsRouteCall /\ AnalystAndCoderWithDefaultRules
       /\ call.args[1].message_type = "task"
       /\ call.args[1].content = "c_sales") =>
        /\ Len(routed) = 1
        /\ routed[1].recipients = <<"analyst">>

\* the sales task routed after an earlier call had already routed something
C11_Witness ==
    /\ IsRouteCall
    /\ AnalystAndCoderWithDefaultRules
    /\ call.args[1].message_type = "task"
    /\ call.args[1].content = "c_sales"
    /\ pre.messages_routed >= 1
    /\ Len(routed) = 1
    /\ routed[1].id = "m1_to_analyst"

\* C12: with analyst and coder registered and the default rule set, routing
\* the TASK "Sozdaj funkciyu dlya vychisleniya faktoriala" (c_factorial)
\* returns exactly one derived message, addressed to coder.
C12_FactorialTaskGoesToCoder ==
    (IsRouteCall /\ AnalystAndCoderWithDefaultRules
       /\ call.args[1].message_type = "task"
       /\ call.args[1].content = "c_factorial") =>
        /\ Len(routed) = 1
        /\ routed[1].recipients = <<"coder">>

\* C13: with analyst and coder registered, reviewer not, and the default rule
\* set, a TASK of 250 characters holding no default keyword fires the catch-all
\* rule and yields one derived message for analyst and then one for coder,
\* with step 1 and step 2.
C13_LongTaskGoesToRegisteredTargets ==
    (IsRouteCall /\ AnalystAndCoderWithDefaultRules
       /\ call.args[1].message_type = "task"
       /\ Len(Str[call.args[1].content]) = 250
       /\ \A kw \in AllDefaultKeywords :
             ~IsSubstring(kw, Lower(Str[call.args[1].content]))) =>
        /\ FiringRule(call.args[1]).condition = "is_complex_task"
        /\ Len(routed) = 2
        /\ routed[1].recipients = <<"analyst">>
        /\ routed[2].recipients = <<"coder">>
        /\ routed[1].metadata.step = 1
        /\ routed[2].metadata.step = 2

\* the long task with coder registered before analyst: the order of the
\* derived messages is that of the rule's target list
C13_Witness ==
    /\ IsRouteCall
    /\ agents = <<"coder", "analyst">>
    /\ OnlyDefaultRules
    /\ call.args[1] = TaskMessage("c_long250")
    /\ Len(routed) = 2
    /\ routed[1].recipients = <<"analyst">>
    /\ routed[2].metadata.step = 2

\* a rule predicate raises on the message
PredicateRaises(message) ==
    \E i \in DOMAIN routing_rules : ConditionRaises(routing_rules[i].condition, message)

\* every predicate returns, a rule with a registered target fires, and the
\* first derived message cannot be built from metadata that is no mapping
BuildingRaises(message) ==
    /\ ~PredicateRaises(message)
    /\ MatchIndexes(message) # {}
    /\ RegisteredTargetCount(FiringRule(message)) > 0
    /\ FiringRule(message).strategy # "conditional"
    /\ message.metadata = None

\* C14: route_message never raises to its caller: when a rule predicate or the
\* construction of a derived message raises, the call still returns, errors
\* has grown by exactly 1, messages_routed is unchanged, and the value returned
\* is the list built so far, which is empty.
C14_RouteFailureIsCaught ==
    (IsRouteCall /\ (PredicateRaises(call.args[1]) \/ BuildingRaises(call.args[1]))) =>
        /\ stats.errors = pre.errors + 1
        /\ stats.messages_routed = pre.messages_routed
        /\ stats.messages_processed = pre.messages_processed
        /\ routed = <<>>

\* a predicate of a lower rule raises although the first rule matched and has
\* a registered target, after an earlier failure
C14_Witness ==
    /\ IsRouteCall
    /\ PredicateRaises(call.args[1])
    /\ ~ConditionRaises(routing_rules[1].condition, call.args[1])
    /\ Condition(routing_rules[1].condition, call.args[1])
    /\ AvailableAgents(routing_rules[1]) # <<>>
    /\ pre.errors = 1
    /\ stats.errors = 2
    /\ routed = <<>>

\* the last call was process_message for a registered agent whose process raised
AgentRaised ==
    /\ IsProcessCall
    /\ call.args[1].recipients # <<>>
    /\ call.args[1].recipients[1] \in AgentSet
    /\ call.args[2] = "raises"

\* C15 as stated: when the registered agent's process raises, process_message
\* returns an ERROR message correlated with the input and its content is the
\* exception's string representation; errors grows by exactly 1.
C15_ErrorContentIsExceptionText ==
    AgentRaised =>
        /\ Len(response) = 1
        /\ response[1].message_type = "error"
        /\ response[1].metadata.original_message_id = call.args[1].id
        /\ response[1].content = ExceptionOf(call.args[1], "raises").str
        /\ stats.errors = pre.errors + 1

\* C15, amended: when the registered agent's process raises, process_message
\* returns one ERROR message whose metadata original_message_id is the id of
\* the input and whose content is the fixed prefix followed by the exception's
\* string representation; errors grows by exactly 1 and messages_processed is
\* unchanged.
C15_ErrorContentIsPrefixedExceptionText ==
    AgentRaised =>
        /\ Len(response) = 1
        /\ response[1].message_type = "error"
        /\ response[1].metadata.original_message_id = call.args[1].id
        /\ response[1].content = ErrorPrefix \o ExceptionOf(call.args[1], "raises").str
        /\ response[1].content # ExceptionOf(call.args[1], "raises").str
        /\ stats.errors = pre.errors + 1
        /\ stats.messages_processed = pre.messages_processed

\* the agent was awaited and raised, after a call that had succeeded
C15_Witness ==
    /\ AgentRaised
    /\ invoked = <<"coder">>
    /\ call.args[1].id = "m1_to_analyst"
    /\ returned.result >= 1
    /\ response[1].message_type = "error"
    /\ response[1].metadata.error_type = "RuntimeError"

IsPrefix(s, t) == Len(s) <= Len(t) /\ SubSeq(t, 1, Len(s)) = s

\* the rules of one priority, in list order
Tier(rules, p) == SelectSeq(rules, LAMBDA rule : rule.priority = p)

\* the matching rules that share the priority of the first matching rule
TiedMatches(message) ==
    {i \in MatchIndexes(message) :
        routing_rules[i].priority = FiringRule(message).priority}

\* C19: rules of equal priority stay in registration order: every registration
\* leaves the rules already present in each priority tier in their order and
\* puts the newly registered ones behind them; and when several rules of the
\* highest matching priority match a message, the one standing first in that
\* tier, the earliest registered, is the one route_message expands.
C19_TiesKeepRegistrationOrder ==
    /\ [][\A i \in DOMAIN routing_rules :
             IsPrefix(Tier(routing_rules, routing_rules[i].priority),
                      Tier(routing_rules', routing_rules[i].priority))]_vars
    /\ []((IsRouteCall /\ MatchIndexes(call.args[1]) # {}
             /\ Cardinality(TiedMatches(call.args[1])) >= 2) =>
            LET message == call.args[1]
                first == CHOOSE i \in TiedMatches(message) :
                             \A j \in TiedMatches(message) : i <= j
            IN routed = Expand(routing_rules[first], message))

\* at least three rules of priority 10 are registered, two of them with
\* different targets match the message, and the one in front is expanded
C19_Witness ==
    /\ IsRouteCall
    /\ Len(Tier(routing_rules, 10)) >= 3
    /\ \E i, j \in TiedMatches(call.args[1]) :
          /\ i < j
          /\ routing_rules[i].priority = 10
          /\ routed = Expand(routing_rules[i], call.args[1])
          /\ routed # Expand(routing_rules[j], call.args[1])
    /\ routed # <<>>

\* C16 as stated: the history is append-only for every public operation: the
\* history before a step is a prefix of the history after it.
C16_HistoryIsAppendOnly ==
    [][IsPrefix(message_history, message_history')]_vars

\* C16, amended: every operation other than clear_history (send_message,
\* route_message, process_message, the steps of the processing loop,
\* get_message_history, get_stats) leaves the history before it a prefix of the
\* history after it; clear_history empties the history.
C16_HistoryGrowsUnlessCleared ==
    [][/\ ClearHistory => message_history' = <<>>
       /\ ClearHistory \/ IsPrefix(message_history, message_history')]_vars

\* clear_history was called while the loop awaited the second agent of a
\* sequential expansion: the original message and the first response are gone
C16_Witness ==
    /\ call.op = "clear_history"
    /\ message_history = <<>>
    /\ loop.pc = "seq"
    /\ loop.tasks = <<"done", "running">>

\* the derived messages whose agent.process call is in flight
InFlight == {k \in DOMAIN loop.tasks : loop.tasks[k] = "running"}

\* C17: while the loop handles the expansion of a sequential rule, whatever the
\* metadata of the original message, the derived messages are processed one at
\* a time in list order: at most one agent call is in flight and a call is
\* started only when every earlier one has ended.
C17_SequentialOneAtATime ==
    loop.strategy = "sequential" =>
        /\ Cardinality(InFlight) <= 1
        /\ \A k \in DOMAIN loop.tasks :
              loop.tasks[k] # "pending" => \A j \in 1..(k - 1) : loop.tasks[j] = "done"

\* the loop has just left the gather of a parallel expansion
GatherReturns ==
    /\ loop.strategy = "parallel"
    /\ loop.pc = "gather"
    /\ loop'.pc # "gather"

\* C18: a parallel expansion of K derived messages is processed by K tasks; a
\* task ends only by the return of its own process_message call, with a RESULT
\* or an ERROR correlated with its derived message, whatever happened to the
\* others; when gather returns every task has ended, the K responses have been
\* appended to the history in the order of the derived messages, and the loop
\* goes on to its while condition.
C18_ParallelBatchAllAnswered ==
    /\ []((loop.strategy = "parallel") =>
            /\ loop.pc = "gather"
            /\ Len(loop.tasks) = Len(loop.batch)
            /\ \A k \in DOMAIN loop.batch :
                  /\ loop.tasks[k] = "done" <=> loop.results[k] # <<>>
                  /\ loop.results[k] # <<>> =>
                        /\ Len(loop.results[k]) = 1
                        /\ loop.results[k][1].message_type \in {"result", "error"}
                        /\ loop.results[k][1].metadata.original_message_id = loop.batch[k].id
                        /\ loop.results[k][1].sender = loop.batch[k].recipients[1])
    /\ [][loop.strategy = "parallel" /\ loop'.strategy = "parallel" =>
            \A k \in DOMAIN loop.tasks :
                /\ loop.tasks[k] = "done" => loop'.results[k] = loop.results[k]
                /\ loop.tasks[k] = "running" => loop'.tasks[k] \in {"running", "done"}]_vars
    /\ [][GatherReturns =>
            /\ \A k \in DOMAIN loop.tasks : loop.tasks[k] = "done"
            /\ Len(message_history') = Len(message_history) + Len(loop.batch)
            /\ \A k \in DOMAIN loop.batch :
                  message_history'[Len(message_history) + k] = loop.results[k][1]
            /\ loop'.pc = IF is_running THEN "get" ELSE "stopped"]_vars

\* after a parallel expansion whose first agent failed and whose second agent
\* succeeded, both responses are in the history and the loop awaits the queue
C18_Witness ==
    /\ loop.pc = "get"
    /\ is_running
    /\ Len(message_history) >= 3
    /\ message_history[Len(message_history) - 2] = TaskMessage("c_par")
    /\ message_history[Len(message_history) - 1].message_type = "error"
    /\ message_history[Len(message_history) - 1].metadata.original_message_id = "m1_to_analyst"
    /\ message_history[Len(message_history)].message_type = "result"
    /\ message_history[Len(message_history)].metadata.original_message_id = "m1_to_coder"

\* C20: in the expansion of a sequential rule the derived message at 0-based
\* position i carries a previous_results list of exactly i elements, each the
\* content of the original message; it stays so while the loop processes the
\* expansion and never holds the content of a response.
C20_PreviousResultsAreOriginalContent ==
    (loop.strategy = "sequential" /\ loop.batch # <<>>) =>
        \A i \in 0..(Len(loop.batch) - 1) :
            LET previous_results == loop.batch[i + 1].metadata.previous_results
            IN /\ Len(previous_results) = i
               /\ \A j \in 1..i : previous_results[j] = loop.message[1].content
               /\ \A h \in DOMAIN message_history :
                     message_history[h].message_type \in {"result", "error"} =>
                         \A j \in 1..i : previous_results[j] # message_history[h].content

\* the first agent has answered and the second derived message, being
\* processed, still lists the original content; the original message came with
\* a previous_results entry of its own
C20_Witness ==
    /\ loop.strategy = "sequential"
    /\ loop.pc = "seq"
    /\ loop.tasks = <<"done", "running">>
    /\ loop.message[1].id = "m6"
    /\ loop.message[1].metadata.previous_results = <<"result of analyst">>
    /\ loop.batch[2].metadata.previous_results = <<"c_seq">>
    /\ \E h \in DOMAIN message_history :
          message_history[h].content = "result of analyst"

\* the ids of a list of messages, in order
Ids(messages) == [k \in DOMAIN messages |-> messages[k].id]

\* C21: every derived message has one recipient and its id is the id of the
\* original message, "_to_" (sequential, parallel) or "_broadcast_" (broadcast)
\* and that recipient; routing the same message again in the state the call
\* left yields the same ids in the same order.
C21_DerivedIdsAreDeterministic ==
    (IsRouteCall /\ routed # <<>>) =>
        LET message == call.args[1]
            infix == IF FiringRule(message).strategy = "broadcast"
                       THEN "_broadcast_" ELSE "_to_"
        IN /\ \A k \in DOMAIN routed :
                /\ Len(routed[k].recipients) = 1
                /\ routed[k].id = message.id \o infix \o routed[k].recipients[1]
           /\ Ids(RoutedMessages(message)) = Ids(routed)

\* a broadcast to two agents: the ids follow the registration order
C21_Witness ==
    /\ IsRouteCall
    /\ MatchIndexes(call.args[1]) # {}
    /\ FiringRule(call.args[1]).strategy = "broadcast"
    /\ agents = <<"coder", "analyst">>
    /\ call.args[1].id = "m4"
    /\ Ids(routed) = <<"m4_broadcast_coder", "m4_broadcast_analyst">>

\* C22: process_message on a message without recipients returns an ERROR
\* message whose sender is "system", adds 1 to errors and leaves
\* messages_processed alone; with recipients, only the first one is looked up
\* and awaited.
C22_EmptyRecipientsIsSystemError ==
    IsProcessCall =>
        /\ call.args[1].recipients = <<>> =>
              /\ Len(response) = 1
              /\ response[1].message_type = "error"
              /\ response[1].sender = "system"
              /\ invoked = <<>>
              /\ stats.errors = pre.errors + 1
              /\ stats.messages_processed = pre.messages_processed
        /\ call.args[1].recipients # <<>> =>
              /\ invoked = IF call.args[1].recipients[1] \in AgentSet
                             THEN <<call.args[1].recipients[1]>> ELSE <<>>
              /\ response[1].sender = call.args[1].recipients[1]

\* a user's message without recipients, while agents are registered
C22_Witness ==
    /\ IsProcessCall
    /\ call.args[1].recipients = <<>>
    /\ call.args[1].sender = "user"
    /\ AgentSet # {}
    /\ response[1].sender = "system"
    /\ response[1].metadata.error_type = "IndexError"

\* no rule matches the message, or the rule that fires has no registered target
RoutingMiss(message) ==
    \/ MatchIndexes(message) = {}
    \/ RegisteredTargetCount(FiringRule(message)) = 0

\* C24: a route_message call that misses (no rule matches, or the firing rule
\* has no registered target) returns the empty list and changes nothing: the
\* three counters, the rule list, the agent registry, the history and the
\* queue are as before the call.
C24_RoutingMissChangesNothing ==
    [][(call'.op = "route_message" /\ RoutingMiss(call'.args[1])) =>
          /\ routed' = <<>>
          /\ stats' = stats
          /\ routing_rules' = routing_rules
          /\ agents' = agents
          /\ message_history' = message_history
          /\ message_queue' = message_queue]_vars

\* a rule matches but none of its targets is registered, although an agent is
\* registered and an earlier call had routed something
C24_Witness ==
    /\ IsRouteCall
    /\ MatchIndexes(call.args[1]) # {}
    /\ FiringRule(call.args[1]).target_agents # <<>>
    /\ RegisteredTargetCount(FiringRule(call.args[1])) = 0
    /\ agents # <<>>
    /\ pre.messages_routed >= 1
    /\ routed = <<>>
    /\ stats = pre

\* the matching rules behind the one that fires that would yield messages
LowerYieldingMatches(message) ==
    {i \in MatchIndexes(message) :
        /\ i > FirstMatchIndex(message)
        /\ Expand(routing_rules[i], message) # <<>>}

\* C25: when the first matching rule yields nothing (none of its targets is
\* registered, or its strategy is conditional) route_message returns the empty
\* list, also when a lower-ranked matching rule has registered targets.
C25_NoFallThrough ==
    (IsRouteCall /\ MatchIndexes(call.args[1]) # {}
       /\ \/ RegisteredTargetCount(FiringRule(call.args[1])) = 0
          \/ FiringRule(call.args[1]).strategy = "conditional") =>
        /\ routed = <<>>
        /\ stats.messages_routed = pre.messages_routed

\* the first matching rule names only an unregistered agent and a rule of
\* lower priority matches and would reach a registered one
C25_Witness ==
    /\ IsRouteCall
    /\ MatchIndexes(call.args[1]) # {}
    /\ FiringRule(call.args[1]).strategy # "conditional"
    /\ RegisteredTargetCount(FiringRule(call.args[1])) = 0
    /\ \E i \in LowerYieldingMatches(call.args[1]) :
          routing_rules[i].priority < FiringRule(call.args[1]).priority
    /\ routed = <<>>

\* the lower-cased content holds a keyword of the topic
HasKeywordOf(cond, message) ==
    \E kw \in DefaultKeywords[cond] : IsSubstring(kw, Lower(Str[message.content]))

\* C26: the default rule set ranks data-analysis (10), code-generation (10),
\* code-review (9), project-management (8), idea-generation (7),
\* quality-assessment (6), catch-all (5); with it, a TASK holding a
\* data-analysis and a code-generation keyword yields exactly one derived
\* message, to analyst when it is registered, and a TASK longer than 200
\* characters that holds a topic keyword is not expanded by the catch-all rule.
C26_DefaultRanking ==
    OnlyDefaultRules =>
        /\ [i \in DOMAIN routing_rules |-> routing_rules[i].condition] =
              << "is_data_analysis", "is_code_generation", "is_code_review",
                 "is_project_management", "is_idea_generation",
                 "is_quality_assessment", "is_complex_task" >>
        /\ [i \in DOMAIN routing_rules |-> routing_rules[i].priority] =
              <<10, 10, 9, 8, 7, 6, 5>>
        /\ (IsRouteCall /\ call.args[1].message_type = "task"
              /\ HasKeywordOf("is_data_analysis", call.args[1])
              /\ HasKeywordOf("is_code_generation", call.args[1])
              /\ "analyst" \in AgentSet) =>
                /\ Len(routed) = 1
                /\ routed[1].recipients = <<"analyst">>
        /\ (IsRouteCall /\ call.args[1].message_type = "task"
              /\ Len(Str[call.args[1].content]) > 200
              /\ \E cond \in TopicConditions : HasKeywordOf(cond, call.args[1])) =>
                /\ FiringRule(call.args[1]).condition # "is_complex_task"
                /\ Len(routed) <= 1
                /\ \A k \in DOMAIN routed : routed[k].metadata.total_steps = 1

\* a long task with a code keyword, all three agents of the catch-all chain
\* registered: one derived message, to coder
C26_Witness ==
    /\ IsRouteCall
    /\ OnlyDefaultRules
    /\ AgentSet = AgentIds
    /\ call.args[1] = TaskMessage("c_long_algo")
    /\ Len(routed) = 1
    /\ routed[1].recipients = <<"coder">>

\* C30: route_message evaluates the predicate of every rule: when the
\* predicate of any rule raises for the message, also one ranked below a rule
\* that matches, the call returns the empty list, errors grows by 1 and
\* messages_routed is unchanged.
C30_EveryPredicateIsEvaluated ==
    (IsRouteCall
       /\ \E j \in DOMAIN routing_rules :
             ConditionRaises(routing_rules[j].condition, call.args[1])) =>
        /\ routed = <<>>
        /\ stats.errors = pre.errors + 1
        /\ stats.messages_routed = pre.messages_routed

\* the only raising rule is ranked below a rule that matches a well-formed
\* message and has a registered target; it is the first failure of the router
C30_Witness ==
    /\ IsRouteCall
    /\ call.args[1].metadata # None
    /\ pre.errors = 0
    /\ \E i, j \in DOMAIN routing_rules :
          /\ i < j
          /\ routing_rules[i].priority > routing_rules[j].priority
          /\ Condition(routing_rules[i].condition, call.args[1])
          /\ AvailableAgents(routing_rules[i]) # <<>>
          /\ routing_rules[i].strategy # "conditional"
          /\ ConditionRaises(routing_rules[j].condition, call.args[1])
    /\ routed = <<>>
    /\ stats.errors = 1

\* the loop is between the dequeue of a message and the end of its processing
Processing == loop.pc \in {"seq", "gather"}

\* the step takes the oldest message from the queue
Dequeues == message_queue # <<>> /\ message_queue' = Tail(message_queue)

\* how many responses of the current batch are in the history already
AppendedSoFar ==
    IF loop.pc = "seq"
      THEN Cardinality({k \in DOMAIN loop.tasks : loop.tasks[k] = "done"})
      ELSE 0

\* C23: a dequeued message that route_message expands into K derived messages
\* adds exactly 1 + K entries to the history: the dequeue appends the original,
\* the history only grows while the batch is processed, and when the loop
\* leaves the batch the history ends with the original followed by the K
\* responses in the order of the derived messages, RESULTs where the agent
\* returned, whatever the order of completion in the gather branch.
C23_HistoryGrowsByOnePlusK ==
    /\ [][Dequeues =>
            /\ message_history' = Append(message_history, Head(message_queue))
            /\ IF RoutedMessages(Head(message_queue)) = <<>>
                 THEN loop'.batch = <<>>
                 ELSE /\ loop'.batch = RoutedMessages(Head(message_queue))
                      /\ loop'.message = <<Head(message_queue)>>]_vars
    /\ [](Processing =>
            LET n == Len(message_history)
                d == AppendedSoFar
            IN /\ n >= d + 1
               /\ message_history[n - d] = loop.message[1]
               /\ \A k \in 1..d : message_history[n - d + k] = loop.results[k][1])
    /\ [][Processing =>
            /\ IsPrefix(message_history, message_history')
            /\ Processing' => Len(message_history') =
                  Len(message_history) + (AppendedSoFar' - AppendedSoFar)]_vars
    /\ [][(Processing /\ ~Processing') =>
            LET K == Len(loop.batch)
                n == Len(message_history')
            IN /\ n = Len(message_history) + (K - AppendedSoFar)
               /\ n >= K + 1
               /\ message_history'[n - K] = loop.message[1]
               /\ \A k \in 1..K :
                     /\ message_history'[n - K + k].metadata.original_message_id =
                           loop.batch[k].id
                     /\ message_history'[n - K + k].sender = loop.batch[k].recipients[1]
                     /\ message_history'[n - K + k].message_type \in {"result", "error"}]_vars

\* a message that no rule matched, then a parallel expansion whose two agents
\* returned: the history holds the first original alone, then the second
\* original and the two RESULTs in the order of the derived messages
C23_Witness ==
    /\ ~Processing
    /\ Len(message_history) = 4
    /\ message_history[1] = TaskMessage("c_hello")
    /\ message_history[2] = TaskMessage("c_par")
    /\ message_history[3] = ResponseMessage(RoutedMessages(TaskMessage("c_par"))[1])
    /\ message_history[4] = ResponseMessage(RoutedMessages(TaskMessage("c_par"))[2])

\* the tasks of the current batch that have ended, and those that ended with a RESULT
Ended == {k \in DOMAIN loop.tasks : loop.tasks[k] = "done"}
EndedWithResult == {k \in Ended : loop.results[k][1].message_type = "result"}

\* C27: while K process_message calls run concurrently under gather, after any
\* number of completions in any order messages_processed has grown by the
\* number of calls that returned a RESULT and errors by the number that
\* returned an ERROR; when all have ended the two counters together have
\* grown by K.
C27_NoLostCounterUpdate ==
    loop.pc = "gather" =>
        /\ stats.messages_processed =
              loop.stats0.messages_processed + Cardinality(EndedWithResult)
        /\ stats.errors =
              loop.stats0.errors + Cardinality(Ended \ EndedWithResult)
        /\ stats.messages_routed = loop.stats0.messages_routed
        /\ Ended = DOMAIN loop.tasks =>
              stats.messages_processed + stats.errors =
                  loop.stats0.messages_processed + loop.stats0.errors + Len(loop.batch)

\* both calls of the batch have ended, one with an ERROR and one with a
\* RESULT; the counters had been positive before
C27_Witness ==
    /\ loop.pc = "gather"
    /\ loop.stats0.messages_processed >= 1
    /\ Ended = {1, 2}
    /\ loop.results[1][1].message_type = "error"
    /\ loop.results[2][1].message_type = "result"
    /\ stats.messages_processed = loop.stats0.messages_processed + 1
    /\ stats.errors = loop.stats0.errors + 1

\* the positions of the history that hold a message taken from the queue
Originals == {h \in DOMAIN message_history :
                 message_history[h].message_type \notin {"result", "error"}}

\* the end of the block that starts at position o
BlockEnd(o) ==
    IF \E p \in Originals : p > o
      THEN (CHOOSE p \in Originals : p > o /\ \A q \in Originals : q > o => p <= q) - 1
      ELSE Len(message_history)

\* C28: the single loop takes the messages in the order of send_message
\* (put at the tail, get from the head, and only when the previous message is
\* finished), so the history is a concatenation of blocks in send order: an
\* original message followed by the responses to its own derived messages, in
\* their order, and by nothing else; only the block of the message being
\* processed can be incomplete.
C28_HistoryIsBlocksInSendOrder ==
    /\ [][message_queue' # message_queue =>
            \/ /\ \E message \in LoopInputs : message_queue' = Append(message_queue, message)
               /\ message_history' = message_history
            \/ /\ Dequeues
               /\ ~Processing
               /\ message_history' = Append(message_history, Head(message_queue))]_vars
    /\ []((message_history # <<>> => 1 \in Originals)
          /\ \A o \in Originals :
                LET expected == RoutedMessages(message_history[o])
                    count == BlockEnd(o) - o
                    last == BlockEnd(o) = Len(message_history)
                IN /\ count <= Len(expected)
                   /\ \A k \in 1..count :
                         /\ message_history[o + k].metadata.original_message_id = expected[k].id
                         /\ message_history[o + k].sender = expected[k].recipients[1]
                   /\ (~last \/ ~Processing) => count = Len(expected)
                   /\ (last /\ Processing) =>
                         /\ message_history[o] = loop.message[1]
                         /\ count = AppendedSoFar)

\* two complete blocks of different messages, sequential then parallel, while
\* the loop waits for more
C28_Witness ==
    /\ loop.pc = "get"
    /\ message_queue = <<>>
    /\ Len(message_history) = 6
    /\ Originals = {1, 4}
    /\ message_history[1] = TaskMessage("c_seq")
    /\ message_history[4] = TaskMessage("c_par")
    /\ message_history[6].metadata.original_message_id = "m1_to_coder"

\* C29 as stated: once stop_processing has been called the loop terminates
\* after at most the message it is handling or its current wait on the queue:
\* a loop that was waiting when the flag went down takes no further message.
C29_StopEndsLoopAfterCurrentWait ==
    /\ (~is_running ~> loop.pc = "stopped")
    /\ [][(~is_running /\ loop.pc = "get") => message_history' = message_history]_vars

\* C29, amended: once stop_processing has been called the loop terminates,
\* provided every awaited agent call ends; before it does it finishes the
\* message it is handling without taking another, or, if it was waiting on the
\* queue, takes at most the one message that wait delivers and finishes it;
\* what is in the queue once the loop has terminated stays there and is not
\* added to the history.
C29_StopEndsLoopAfterOneMessage ==
    /\ (~is_running ~> loop.pc = "stopped")
    /\ [][(~is_running /\ Processing) => IsPrefix(message_queue, message_queue')]_vars
    /\ [][(~is_running /\ loop.pc = "get" /\ Dequeues) => loop'.pc # "get"]_vars
    /\ [][(~is_running /\ loop.pc = "get" /\ ~Dequeues) =>
            /\ message_history' = message_history
            /\ loop'.pc \in {"get", "stopped"}]_vars
    /\ [][(loop.pc = "stopped" /\ loop'.pc = "stopped") =>
            /\ message_history' = message_history
            /\ IsPrefix(message_queue, message_queue')]_vars

\* the loop has ended after stop_processing, having handled one message, and a
\* second message is still in the queue
C29_Witness ==
    /\ ~is_running
    /\ loop.pc = "stopped"
    /\ call.op = "start_processing"
    /\ Len(message_queue) = 1
    /\ Originals = {1}
    /\ Len(message_history) = 3

====
